---- MODULE Spec2Model ----
(***************************************************************************)
(* Model of the HTU2XD humidity/temperature sensor driver: the CRC-8       *)
(* checksum engine (src/src/crc.rs), the user register codec               *)
(* (src/src/user_register.rs) and the acquisition protocol                 *)
(* (src/src/lib.rs), driven against a mocked I2C transport as in           *)
(* src/tests/i2c_mocked.rs.                                                *)
(***************************************************************************)
EXTENDS Integers, Sequences, FiniteSets, TLC

(***************************************************************************)
(* Machine integers.  u8 and u16 values are naturals below 2^8 and 2^16;   *)
(* the bitwise operators of the source are computed bit by bit.            *)
(***************************************************************************)
Byte == 0 .. 255

RECURSIVE BitAnd(_, _, _)
\* a & b on w-bit operands
BitAnd(a, b, w) ==
    IF w = 0 THEN 0
    ELSE ((a % 2) * (b % 2)) + 2 * BitAnd(a \div 2, b \div 2, w - 1)

RECURSIVE BitOr(_, _, _)
\* a | b on w-bit operands
BitOr(a, b, w) ==
    IF w = 0 THEN 0
    ELSE (IF (a % 2) + (b % 2) > 0 THEN 1 ELSE 0)
         + 2 * BitOr(a \div 2, b \div 2, w - 1)

RECURSIVE BitXor(_, _, _)
\* a ^ b on w-bit operands
BitXor(a, b, w) ==
    IF w = 0 THEN 0
    ELSE (((a % 2) + (b % 2)) % 2) + 2 * BitXor(a \div 2, b \div 2, w - 1)

\* !a on a u8
Not8(a) == 255 - a

\* a << n on a u8: the bits shifted past bit 7 are lost
Shl8(a, n) == (a * (2 ^ n)) % 256

\* a >> n on a u8
Shr8(a, n) == a \div (2 ^ n)

(***************************************************************************)
(* src/src/crc.rs: 8-bit CRC, polynomial x^8 + x^5 + x^4 + 1, init 0.      *)
(***************************************************************************)
\* Crc::new
new == 0

\* add_step testing bit 3 (0x08) where the source tests bit 7 (0x80)
add_step_mask_typo(v) ==
    IF BitAnd(v, 8, 8) # 0
    THEN BitXor(Shl8(v, 1), 49, 8)
    ELSE Shl8(v, 1)

\* add_step with the polynomial written 0x13 where the source has 0x31
add_step_poly_typo(v) ==
    IF BitAnd(v, 128, 8) # 0
    THEN BitXor(Shl8(v, 1), 19, 8)
    ELSE Shl8(v, 1)

\* One pass of the loop body of Crc::add (crc.rs:18-22)
add_step(v) ==
    IF BitAnd(v, 128, 8) # 0
    THEN BitXor(Shl8(v, 1), 49, 8)
    ELSE Shl8(v, 1)

RECURSIVE add_loop(_, _)
\* for _ in 0..8 { ... } of Crc::add
add_loop(v, n) == IF n = 0 THEN v ELSE add_loop(add_step(v), n - 1)

\* The eight passes of the loop, tabulated once for every value the
\* remainder can hold when the loop is entered
add_shifted == [v \in Byte |-> add_loop(v, 8)]

\* Crc::add with the byte XORed in after the shifts instead of before
add_byte_xor_after(v, byte) == BitXor(add_shifted[v], byte, 8)

\* Crc::add: self.value ^= byte, then the eight shift steps
add_byte(v, byte) == add_shifted[BitXor(v, byte, 8)]

\* Crc::add, tabulated once over every remainder and every byte
add_table == [v \in Byte |-> [byte \in Byte |-> add_byte(v, byte)]]

\* Crc::add, looked up
add(v, byte) == add_table[v][byte]

RECURSIVE add_all_from_end(_, _)
\* add_all that takes the bytes of the slice from its end
add_all_from_end(v, bytes) ==
    IF bytes = << >> THEN v
    ELSE add_all_from_end(add(v, bytes[Len(bytes)]),
                          SubSeq(bytes, 1, Len(bytes) - 1))

RECURSIVE add_all(_, _)
\* Crc::add_all: add each byte of the slice in order
add_all(v, bytes) ==
    IF bytes = << >> THEN v
    ELSE add_all(add(v, Head(bytes)), Tail(bytes))

\* Crc::value
value(v) == v

(***************************************************************************)
(* src/src/lib.rs: values returned to the caller.                          *)
(***************************************************************************)
Kinds == {"Temperature", "Humidity"}

\* The unit value ()
unit == << >>

\* Result::Ok and Result::Err
Ok(v) == [ok |-> TRUE, value |-> v]
Err(e) == [ok |-> FALSE, error |-> e]

\* enum Error<E> { I2c(E), Crc }
Error_I2c(e) == [variant |-> "I2c", inner |-> e]
Error_Crc == [variant |-> "Crc"]

\* impl From<E> for Error<E>, applied by the ? operator
Error_from(e) == Error_I2c(e)

\* nb::Error::WouldBlock and nb::Error::Other
nb_WouldBlock == [nb |-> "WouldBlock"]
nb_Other(e) == [nb |-> "Other", error |-> e]

\* Result::map_err(nb::Error::Other)
map_err_Other(r) == IF r.ok THEN r ELSE Err(nb_Other(r.error))

\* SealedFromRaw::from_raw: Temperature(raw) or Humidity(raw)
Measurement_from_raw(raw, M) == [kind |-> M, raw |-> raw]

\* Temperature::as_raw, Humidity::as_raw
as_raw(m) == m.raw

\* enum Reading<R> { Ok(R), ErrorLow, ErrorHigh }
Reading_Ok(m) == [variant |-> "Ok", kind |-> m.kind, measurement |-> m]
Reading_ErrorLow(M) == [variant |-> "ErrorLow", kind |-> M]
Reading_ErrorHigh(M) == [variant |-> "ErrorHigh", kind |-> M]

\* Reading::from_raw without clearing the two status bits
Reading_from_raw_unmasked(raw, M) ==
    IF raw = 0 THEN Reading_ErrorLow(M)
    ELSE IF raw = 65535 THEN Reading_ErrorHigh(M)
    ELSE Reading_Ok(Measurement_from_raw(raw, M))

\* Reading::from_raw clearing the status bits before it looks for the
\* off-scale words
Reading_from_raw_masked_first(raw, M) ==
    LET masked == BitAnd(raw, 65532, 16)
    IN  IF masked = 0 THEN Reading_ErrorLow(M)
        ELSE IF masked = 65532 THEN Reading_ErrorHigh(M)
        ELSE Reading_Ok(Measurement_from_raw(masked, M))

\* Reading::from_raw
Reading_from_raw(raw, M) ==
    IF raw = 0 THEN Reading_ErrorLow(M)
    ELSE IF raw = 65535 THEN Reading_ErrorHigh(M)
    ELSE Reading_Ok(Measurement_from_raw(BitAnd(raw, 65532, 16), M))

\* parse_and_check_reading recognising the off-scale words before it
\* checks the CRC
parse_sentinel_first(bytes, M) ==
    LET reading16 == BitOr(bytes[1] * 256, bytes[2], 16)
    IN  IF reading16 \in {0, 65535} THEN Ok(Reading_from_raw(reading16, M))
        ELSE IF value(add_all(new, bytes)) # 0 THEN Err(Error_Crc)
        ELSE Ok(Reading_from_raw(reading16, M))

\* parse_and_check_reading
parse_and_check_reading(bytes, M) ==
    LET reading16 == BitOr(bytes[1] * 256, bytes[2], 16)
    IN  IF value(add_all(new, bytes)) # 0
        THEN Err(Error_Crc)
        ELSE Ok(Reading_from_raw(reading16, M))

(***************************************************************************)
(* f32.  A value is its sign and m * 2^e with m = 0 or 2^23 <= m < 2^24    *)
(* (IEEE 754 binary32; the exponent is not limited, no value here leaves   *)
(* the normal range).  Each operation returns the exact result rounded to  *)
(* the nearest value, ties to an even m.  Integers are kept below 2^31.    *)
(***************************************************************************)
f32_zero == [neg |-> FALSE, m |-> 0, e |-> 0]

\* The number of bits of n, 0 <= n < 2^30
BitLen(n) == CHOOSE k \in 0 .. 30 : n < 2 ^ k /\ (k = 0 \/ n >= 2 ^ (k - 1))

\* m * 2^e, 0 <= m <= 2^24, as a value
f32_normal(neg, m, e) ==
    IF m = 0 THEN f32_zero
    ELSE IF m = 2 ^ 24 THEN [neg |-> neg, m |-> 2 ^ 23, e |-> e + 1]
    ELSE LET k == 24 - BitLen(m)
         IN  [neg |-> neg, m |-> m * 2 ^ k, e |-> e - k]

\* (q + rem2 / (2 * full)) * 2^e rounded, where rem2 < 2 * full
f32_round(neg, q, rem2, full, e) ==
    f32_normal(neg,
               IF rem2 > full \/ (rem2 = full /\ q % 2 = 1) THEN q + 1 ELSE q,
               e)

\* f32::from(u16): exact
f32_from_u16(x) == f32_normal(FALSE, x, 0)

\* The literal n/d_f32, n/d >= 1: the nearest value
f32_literal(n, d) ==
    LET k == CHOOSE k \in 0 .. 23 : d * 2 ^ k <= n /\ n < d * 2 ^ (k + 1)
        scaled == n * 2 ^ (23 - k)
    IN  f32_round(FALSE, scaled \div d, 2 * (scaled % d), d, k - 23)

\* Unary minus
f32_neg(a) == IF a.m = 0 THEN a ELSE [a EXCEPT !.neg = ~a.neg]

\* n more bits of the quotient of r / b, r < b, after the bits q: the
\* quotient and the remainder
RECURSIVE DivBits(_, _, _, _)
DivBits(r, b, n, q) ==
    IF n = 0 THEN <<q, r>>
    ELSE LET bit == IF 2 * r >= b THEN 1 ELSE 0
         IN  DivBits(2 * r - bit * b, b, n - 1, 2 * q + bit)

\* a / b, b not 0
f32_div(a, b) ==
    IF a.m = 0 THEN f32_zero
    ELSE LET neg == a.neg # b.neg
             qr == IF a.m >= b.m THEN DivBits(a.m - b.m, b.m, 23, 1)
                   ELSE DivBits(a.m, b.m, 24, 0)
             e == IF a.m >= b.m THEN a.e - b.e - 23 ELSE a.e - b.e - 24
         IN  f32_round(neg, qr[1], 2 * qr[2], b.m, e)

\* a * b: the 48-bit product of the two m, in halves of 24 bits
f32_mul(a, b) ==
    IF a.m = 0 \/ b.m = 0 THEN f32_zero
    ELSE LET neg == a.neg # b.neg
             ah == a.m \div 4096
             al == a.m % 4096
             bh == b.m \div 4096
             bl == b.m % 4096
             mid == ah * bl + al * bh
             low == (mid % 4096) * 4096 + al * bl
             X == ah * bh + (mid \div 4096) + (low \div 2 ^ 24)
             Y == low % 2 ^ 24
         IN  IF X >= 2 ^ 23
             THEN f32_round(neg, X, 2 * Y, 2 ^ 24, a.e + b.e + 24)
             ELSE f32_round(neg, 2 * X + (Y \div 2 ^ 23), 2 * (Y % 2 ^ 23),
                            2 ^ 23, a.e + b.e + 23)

\* big + small where big is the one of larger magnitude, neither is 0, and
\* d is the difference of the exponents: the exact sum is T * 2^d + r in
\* units of small's 2^e.  A small more than 25 binades below counts as a
\* sticky bit.
f32_add_aligned(big, small, d) ==
    LET sm == IF d > 25 THEN 1 ELSE small.m
        dd == IF d > 25 THEN 26 ELSE d
        se == big.e - dd
        sh == sm \div 2 ^ dd
        sl == sm % 2 ^ dd
        same == big.neg = small.neg
        T == IF same THEN big.m + sh
             ELSE IF sl > 0 THEN big.m - sh - 1 ELSE big.m - sh
        r == IF same \/ sl = 0 THEN sl ELSE 2 ^ dd - sl
        drop == BitLen(T) + dd - 24
    IN  IF drop <= 0 THEN f32_normal(big.neg, T * 2 ^ dd + r, se)
        ELSE IF drop <= dd
        THEN f32_round(big.neg, T * 2 ^ (dd - drop) + (r \div 2 ^ drop),
                       2 * (r % 2 ^ drop), 2 ^ drop, se + drop)
        ELSE f32_round(big.neg, T \div 2, 2 * ((T % 2) * 2 ^ dd + r),
                       2 ^ drop, se + drop)

\* a + b
f32_add(a, b) ==
    IF a.m = 0 THEN b
    ELSE IF b.m = 0 THEN a
    ELSE IF a.e > b.e \/ (a.e = b.e /\ a.m >= b.m)
    THEN f32_add_aligned(a, b, a.e - b.e)
    ELSE f32_add_aligned(b, a, b.e - a.e)

\* as_degrees_celsius with the offset of the humidity formula
as_degrees_celsius_humidity_offset(t) ==
    f32_add(f32_neg(f32_literal(6, 1)),
            f32_mul(f32_div(f32_literal(17572, 100), f32_literal(65536, 1)),
                    f32_from_u16(t.raw)))

\* Temperature::as_degrees_celsius
as_degrees_celsius(t) ==
    f32_add(f32_neg(f32_literal(4685, 100)),
            f32_mul(f32_div(f32_literal(17572, 100), f32_literal(65536, 1)),
                    f32_from_u16(t.raw)))

\* Humidity::as_percent_relative
as_percent_relative(h) ==
    f32_add(f32_neg(f32_literal(6, 1)),
            f32_mul(f32_div(f32_literal(125, 1), f32_literal(65536, 1)),
                    f32_from_u16(h.raw)))

(***************************************************************************)
(* src/src/user_register.rs: the user register codec.  A UserRegister is   *)
(* the byte exactly as the sensor sends and receives it.                   *)
(***************************************************************************)
Resolutions ==
    {"Humidity12Temperature14", "Humidity8Temperature12",
     "Humidity10Temperature13", "Humidity11Temperature11"}

\* UserRegister::resolution
resolution(reg) ==
    LET bit7 == BitAnd(Shr8(reg, 7), 1, 8) = 1
        bit0 == BitAnd(reg, 1, 8) = 1
    IN  CASE ~bit7 /\ ~bit0 -> "Humidity12Temperature14"
          [] ~bit7 /\ bit0  -> "Humidity8Temperature12"
          [] bit7 /\ ~bit0  -> "Humidity10Temperature13"
          [] bit7 /\ bit0   -> "Humidity11Temperature11"

\* supply_voltage with the two voltages exchanged
supply_voltage_exchanged(reg) ==
    LET bit6 == BitAnd(Shr8(reg, 6), 1, 8) = 1
    IN  IF bit6 THEN "High" ELSE "Low"

\* UserRegister::supply_voltage
supply_voltage(reg) ==
    LET bit6 == BitAnd(Shr8(reg, 6), 1, 8) = 1
    IN  IF bit6 THEN "Low" ELSE "High"

\* UserRegister::heater_enabled
heater_enabled(reg) == BitAnd(Shr8(reg, 2), 1, 8) = 1

\* otp_reload_enabled without the inversion
otp_reload_enabled_not_inverted(reg) == BitAnd(Shr8(reg, 1), 1, 8) = 1

\* UserRegister::otp_reload_enabled: inverted, 1 = disable
otp_reload_enabled(reg) ==
    LET bit1 == BitAnd(Shr8(reg, 1), 1, 8) = 1
    IN  ~bit1

\* UserRegister::set_resolution
set_resolution(reg, res) ==
    LET bit_7_mask == Shl8(1, 7)
        bit_0_mask == 1
        cleared == BitAnd(reg, Not8(BitOr(bit_7_mask, bit_0_mask, 8)), 8)
    IN  CASE res = "Humidity12Temperature14" -> cleared
          [] res = "Humidity8Temperature12" -> BitOr(cleared, bit_0_mask, 8)
          [] res = "Humidity10Temperature13" -> BitOr(cleared, bit_7_mask, 8)
          [] res = "Humidity11Temperature11" ->
                 BitOr(cleared, BitOr(bit_7_mask, bit_0_mask, 8), 8)

\* set_heater_enabled with the mask one bit to the left
set_heater_enabled_bit_3(reg, enabled) ==
    LET bit_2_mask == Shl8(1, 3)
    IN  IF enabled THEN BitOr(reg, bit_2_mask, 8)
        ELSE BitAnd(reg, Not8(bit_2_mask), 8)

\* UserRegister::set_heater_enabled
set_heater_enabled(reg, enabled) ==
    LET bit_2_mask == Shl8(1, 2)
    IN  IF enabled THEN BitOr(reg, bit_2_mask, 8)
        ELSE BitAnd(reg, Not8(bit_2_mask), 8)

\* set_otp_reload_enabled that sets the bit to enable
set_otp_reload_enabled_not_inverted(reg, otp_reload) ==
    LET bit_1_mask == Shl8(1, 1)
    IN  IF otp_reload THEN BitOr(reg, bit_1_mask, 8)
        ELSE BitAnd(reg, Not8(bit_1_mask), 8)

\* UserRegister::set_otp_reload_enabled: clear the bit to enable
set_otp_reload_enabled(reg, otp_reload) ==
    LET bit_1_mask == Shl8(1, 1)
    IN  IF otp_reload THEN BitAnd(reg, Not8(bit_1_mask), 8)
        ELSE BitOr(reg, bit_1_mask, 8)

(***************************************************************************)
(* src/src/lib.rs: the bus and the commands.                               *)
(***************************************************************************)
\* const ADDRESS
ADDRESS == 64

\* enum Command
Command_TemperatureHoldMaster == 227
Command_Temperature == 243
Command_HumidityHoldMaster == 229
Command_Humidity == 245
Command_WriteUser == 230
Command_ReadUser == 231
Command_SoftReset == 254

\* The three transactions of embedded_hal::blocking::i2c, as the mock
\* records them: Write::write, Read::read and WriteRead::write_read
I2cWrite(addr, bytes) ==
    [type |-> "write", address |-> addr, bytes |-> bytes, len |-> 0]
I2cRead(addr, n) ==
    [type |-> "read", address |-> addr, bytes |-> << >>, len |-> n]
I2cWriteRead(addr, bytes, n) ==
    [type |-> "write_read", address |-> addr, bytes |-> bytes, len |-> n]

\* What the transport answers to one transaction: Ok with the bytes read
\* (none for a write), or Err with an error of its error type E
TOk(bytes) == [ok |-> TRUE, bytes |-> bytes]
TErr(e) == [ok |-> FALSE, error |-> e]

\* What a driver call did: the transactions it issued and what it returned
Done(bus, result) == [bus |-> bus, result |-> result]

\* ResultReader<I, M>: two PhantomData fields, so only its type parameter M
ResultReader(M) == [reader |-> M]

\* Htu2xd::soft_reset
soft_reset(reply) ==
    Done(<<I2cWrite(ADDRESS, <<Command_SoftReset>>)>>,
         IF reply.ok THEN Ok(unit) ELSE Err(reply.error))

\* read_humidity_blocking parsing its reply as a temperature
read_humidity_blocking_as_temperature(reply) ==
    Done(<<I2cWriteRead(ADDRESS, <<Command_HumidityHoldMaster>>, 3)>>,
         IF ~reply.ok THEN Err(Error_from(reply.error))
         ELSE parse_and_check_reading(reply.bytes, "Temperature"))

\* Htu2xd::read_humidity_blocking
read_humidity_blocking(reply) ==
    Done(<<I2cWriteRead(ADDRESS, <<Command_HumidityHoldMaster>>, 3)>>,
         IF ~reply.ok THEN Err(Error_from(reply.error))
         ELSE parse_and_check_reading(reply.bytes, "Humidity"))

\* read_temperature_blocking reporting a transport error as a checksum
\* failure
read_temperature_blocking_error_as_crc(reply) ==
    Done(<<I2cWriteRead(ADDRESS, <<Command_TemperatureHoldMaster>>, 3)>>,
         IF ~reply.ok THEN Err(Error_Crc)
         ELSE parse_and_check_reading(reply.bytes, "Temperature"))

\* Htu2xd::read_temperature_blocking
read_temperature_blocking(reply) ==
    Done(<<I2cWriteRead(ADDRESS, <<Command_TemperatureHoldMaster>>, 3)>>,
         IF ~reply.ok THEN Err(Error_from(reply.error))
         ELSE parse_and_check_reading(reply.bytes, "Temperature"))

\* Htu2xd::read_humidity
read_humidity(reply) ==
    Done(<<I2cWrite(ADDRESS, <<Command_Humidity>>)>>,
         IF ~reply.ok THEN Err(reply.error)
         ELSE Ok(ResultReader("Humidity")))

\* read_temperature sending the hold-master opcode
read_temperature_hold_master(reply) ==
    Done(<<I2cWrite(ADDRESS, <<Command_TemperatureHoldMaster>>)>>,
         IF ~reply.ok THEN Err(reply.error)
         ELSE Ok(ResultReader("Temperature")))

\* Htu2xd::read_temperature
read_temperature(reply) ==
    Done(<<I2cWrite(ADDRESS, <<Command_Temperature>>)>>,
         IF ~reply.ok THEN Err(reply.error)
         ELSE Ok(ResultReader("Temperature")))

\* read_user_register dropping the reserved bits of the byte
read_user_register_masked(reply) ==
    Done(<<I2cWriteRead(ADDRESS, <<Command_ReadUser>>, 1)>>,
         IF ~reply.ok THEN Err(reply.error)
         ELSE Ok(BitAnd(reply.bytes[1], 199, 8)))

\* Htu2xd::read_user_register
read_user_register(reply) ==
    Done(<<I2cWriteRead(ADDRESS, <<Command_ReadUser>>, 1)>>,
         IF ~reply.ok THEN Err(reply.error)
         ELSE Ok(reply.bytes[1]))

\* write_user_register sending the opcode of the register read
write_user_register_read_opcode(reply, reg) ==
    Done(<<I2cWrite(ADDRESS, <<Command_ReadUser, reg>>)>>,
         IF reply.ok THEN Ok(unit) ELSE Err(reply.error))

\* Htu2xd::write_user_register
write_user_register(reply, reg) ==
    Done(<<I2cWrite(ADDRESS, <<Command_WriteUser, reg>>)>>,
         IF reply.ok THEN Ok(unit) ELSE Err(reply.error))

\* read_result that never calls is_nak: every transport error is fatal
read_result_nak_fatal(M, reply, is_nak) ==
    Done(<<I2cRead(ADDRESS, 3)>>,
         IF reply.ok
         THEN map_err_Other(parse_and_check_reading(reply.bytes, M))
         ELSE Err(nb_Other(Error_I2c(reply.error))))

\* read_result that takes every transport error for a busy sensor
read_result_error_busy(M, reply, is_nak) ==
    Done(<<I2cRead(ADDRESS, 3)>>,
         IF reply.ok
         THEN map_err_Other(parse_and_check_reading(reply.bytes, M))
         ELSE Err(nb_WouldBlock))

\* read_result sending the start command again before it reads
read_result_resend(M, reply, is_nak) ==
    Done(<<I2cWrite(ADDRESS, <<IF M = "Temperature" THEN Command_Temperature
                               ELSE Command_Humidity>>),
           I2cRead(ADDRESS, 3)>>,
         IF reply.ok
         THEN map_err_Other(parse_and_check_reading(reply.bytes, M))
         ELSE IF reply.error \in is_nak
              THEN Err(nb_WouldBlock)
              ELSE Err(nb_Other(Error_I2c(reply.error))))

\* read_result that asks for another poll when the checksum fails
read_result_crc_busy(M, reply, is_nak) ==
    Done(<<I2cRead(ADDRESS, 3)>>,
         IF reply.ok
         THEN IF value(add_all(new, reply.bytes)) # 0
              THEN Err(nb_WouldBlock)
              ELSE map_err_Other(parse_and_check_reading(reply.bytes, M))
         ELSE IF reply.error \in is_nak
              THEN Err(nb_WouldBlock)
              ELSE Err(nb_Other(Error_I2c(reply.error))))

\* ResultReader::read_result.  is_nak is the caller's closure, given as the
\* set of transport errors for which it returns true.
read_result(M, reply, is_nak) ==
    Done(<<I2cRead(ADDRESS, 3)>>,
         IF reply.ok
         THEN map_err_Other(parse_and_check_reading(reply.bytes, M))
         ELSE IF reply.error \in is_nak
              THEN Err(nb_WouldBlock)
              ELSE Err(nb_Other(Error_I2c(reply.error))))

(***************************************************************************)
(* Inputs of the mocked transport, and the bounds of the model.            *)
(***************************************************************************)
\* At most this many read_result calls on one ResultReader
MaxPolls == 4

\* At most this many bytes in a message given to a Crc
MaxCrcLen == 3

\* At most this many mutator calls on one UserRegister
MaxRegOps == 3

\* Values of the transport's error type E
I2cErrors == {"NoAcknowledge", "ArbitrationLoss", "Overrun"}

\* 3-byte replies the sensor gives to a measurement: the two replies of
\* tests/i2c_mocked.rs, the two off-scale words with their checksums, and
\* replies with a wrong checksum
Replies ==
    {<<78, 133, 107>>, <<104, 58, 124>>, <<0, 0, 0>>, <<255, 255, 45>>,
     <<78, 133, 106>>, <<0, 0, 1>>, <<255, 255, 0>>}

\* Register bytes the sensor gives: the one of tests/i2c_mocked.rs and its
\* complement
RegBytes == {58, 197, 2}

WriteReplies == {TOk(<< >>)} \cup {TErr(e) : e \in I2cErrors}
MeasureReplies == {TOk(b) : b \in Replies} \cup {TErr(e) : e \in I2cErrors}
RegReplies == {TOk(<<b>>) : b \in RegBytes} \cup {TErr(e) : e \in I2cErrors}

(***************************************************************************)
(* State.                                                                  *)
(***************************************************************************)
VARIABLES
    handle,     \* kind M of the ResultReader the caller holds, or "None"
    polls,      \* read_result calls made on that ResultReader
    busy,       \* how many of them returned WouldBlock
    nakd,       \* how many the transport answered with an error that
                \* is_nak classified as a negative-acknowledge
    issued,     \* the transactions issued for that ResultReader, from the
                \* one that started the measurement on, in order
    register,   \* <<byte>> of the UserRegister the caller holds, or << >>
    regRead,    \* <<byte>> as read_user_register returned it, or << >>
    regOps,     \* the mutator calls made on it since that the caller keeps
                \* a log of, in order
    call,       \* the last call of a driver function: its transactions,
                \* the transport's answer and the value returned
    msg,        \* bytes on the wire: two data bytes, then their checksum
    crc,        \* Crc.value of the checksum being computed over msg
    fed,        \* bytes of msg added to it so far
    outcome,    \* what each measurement read returned for msg (for each
                \* reply that begins with msg, where all are tried), or << >>
    report,     \* <<what the accessors report of the register>>, or << >>
    measurement,\* <<a Temperature or Humidity taken from a reading>>, or << >>
    converted   \* <<its value in physical units, an f32>>, or << >>

vars ==
    <<handle, polls, busy, nakd, issued, register, regRead, regOps, call,
      msg, crc, fed, outcome, report, measurement, converted>>

driverVars ==
    <<handle, polls, busy, nakd, issued, register, regRead, regOps, call>>
wireVars == <<msg, crc, fed, outcome>>
unitVars == <<measurement, converted>>

Call(op, kind, reply, nak, done) ==
    [op |-> op, kind |-> kind, reply |-> reply, nak |-> nak,
     bus |-> done.bus, result |-> done.result]

\* Htu2xd::new: no transaction, no state
InitDriver ==
    /\ handle = "None"
    /\ polls = 0
    /\ busy = 0
    /\ nakd = 0
    /\ issued = << >>
    /\ register = << >>
    /\ regRead = << >>
    /\ regOps = << >>
    /\ call = Call("new", "None", TOk(<< >>), FALSE, Done(<< >>, Ok(unit)))

InitWire ==
    /\ msg = << >>
    /\ crc = new
    /\ fed = 0
    /\ outcome = << >>

\* The caller has inspected no register
InitReport == report = << >>

\* The caller has converted no measurement
InitUnits == measurement = << >> /\ converted = << >>

Init == InitDriver /\ InitWire /\ InitReport /\ InitUnits

(***************************************************************************)
(* Driver calls.  A ResultReader borrows the driver mutably for its        *)
(* lifetime 'h, so the driver's functions can be called only while the     *)
(* caller holds no ResultReader.  The caller modelled here is sequential   *)
(* and holds at most one value obtained from the driver at a time: it      *)
(* starts nothing else while it holds a UserRegister.                      *)
(***************************************************************************)
\* The caller holds neither a ResultReader nor a UserRegister
Idle == handle = "None" /\ register = << >>

SoftReset ==
    /\ Idle
    /\ \E reply \in WriteReplies :
           call' = Call("soft_reset", "None", reply, FALSE, soft_reset(reply))
    /\ UNCHANGED <<handle, polls, busy, nakd, issued, register, regRead, regOps>>
    /\ UNCHANGED <<wireVars, report, unitVars>>

ReadHumidityBlocking ==
    /\ Idle
    /\ \E reply \in MeasureReplies :
           call' = Call("read_humidity_blocking", "Humidity", reply, FALSE,
                        read_humidity_blocking(reply))
    /\ UNCHANGED <<handle, polls, busy, nakd, issued, register, regRead, regOps>>
    /\ UNCHANGED <<wireVars, report, unitVars>>

ReadTemperatureBlocking ==
    /\ Idle
    /\ \E reply \in MeasureReplies :
           call' = Call("read_temperature_blocking", "Temperature", reply,
                        FALSE, read_temperature_blocking(reply))
    /\ UNCHANGED <<handle, polls, busy, nakd, issued, register, regRead, regOps>>
    /\ UNCHANGED <<wireVars, report, unitVars>>

\* The start of a non-blocking measurement: on Ok the caller holds the
\* ResultReader returned
Start(op, kind, reply, done) ==
    /\ call' = Call(op, kind, reply, FALSE, done)
    /\ handle' = IF done.result.ok THEN done.result.value.reader ELSE "None"
    /\ polls' = 0
    /\ busy' = 0
    /\ nakd' = 0
    /\ issued' = IF done.result.ok THEN done.bus ELSE << >>

ReadHumidity ==
    /\ Idle
    /\ \E reply \in WriteReplies :
           Start("read_humidity", "Humidity", reply, read_humidity(reply))
    /\ UNCHANGED <<register, regRead, regOps>>
    /\ UNCHANGED <<wireVars, report, unitVars>>

ReadTemperature ==
    /\ Idle
    /\ \E reply \in WriteReplies :
           Start("read_temperature", "Temperature", reply,
                 read_temperature(reply))
    /\ UNCHANGED <<register, regRead, regOps>>
    /\ UNCHANGED <<wireVars, report, unitVars>>

\* A poll of a ResultReader that remembers its terminal result and can be
\* polled only until then
ReadResultOnce ==
    /\ handle # "None"
    /\ polls < MaxPolls
    /\ polls = busy
    /\ \E reply \in MeasureReplies, is_nak \in SUBSET I2cErrors :
           /\ reply.ok => is_nak = {}
           /\ LET done == read_result(handle, reply, is_nak)
                  nak == ~reply.ok /\ reply.error \in is_nak
              IN  /\ call' = Call("read_result", handle, reply, nak, done)
                  /\ polls' = polls + 1
                  /\ busy' = IF done.result = Err(nb_WouldBlock)
                             THEN busy + 1 ELSE busy
                  /\ nakd' = IF nak THEN nakd + 1 ELSE nakd
                  /\ issued' = issued \o done.bus
    /\ UNCHANGED <<handle, register, regRead, regOps>>
    /\ UNCHANGED <<wireVars, report, unitVars>>

\* One poll.  The ResultReader holds no state: nothing stops a poll after a
\* terminal result.
ReadResult ==
    /\ handle # "None"
    /\ polls < MaxPolls
    /\ \E reply \in MeasureReplies, is_nak \in SUBSET I2cErrors :
           \* the closure is FnOnce and is called only on a transport error
           /\ reply.ok => is_nak = {}
           /\ LET done == read_result(handle, reply, is_nak)
                  nak == ~reply.ok /\ reply.error \in is_nak
              IN  /\ call' = Call("read_result", handle, reply, nak, done)
                  /\ polls' = polls + 1
                  /\ busy' = IF done.result = Err(nb_WouldBlock)
                             THEN busy + 1 ELSE busy
                  /\ nakd' = IF nak THEN nakd + 1 ELSE nakd
                  /\ issued' = issued \o done.bus
    /\ UNCHANGED <<handle, register, regRead, regOps>>
    /\ UNCHANGED <<wireVars, report, unitVars>>

\* The caller drops the ResultReader, which ends the borrow of the driver
DropReader ==
    /\ handle # "None"
    /\ handle' = "None"
    /\ polls' = 0
    /\ busy' = 0
    /\ nakd' = 0
    /\ issued' = << >>
    /\ UNCHANGED <<register, regRead, regOps, call>>
    /\ UNCHANGED <<wireVars, report, unitVars>>

\* A read_user_register that keeps the byte of the last successful
\* write_user_register and answers from it without a transaction
ReadUserRegisterCached(replies) ==
    /\ Idle
    /\ \E reply \in replies :
           LET cached == call.op = "write_user_register" /\ call.result.ok
               done == IF cached
                       THEN Done(<< >>, Ok(call.bus[1].bytes[2]))
                       ELSE read_user_register(reply)
           IN  /\ call' = Call("read_user_register", "None", reply, FALSE, done)
               /\ IF done.result.ok
                  THEN /\ register' = <<done.result.value>>
                       /\ regRead' = <<done.result.value>>
                       /\ regOps' = << >>
                  ELSE UNCHANGED <<register, regRead, regOps>>
    /\ report' = << >>
    /\ UNCHANGED <<handle, polls, busy, nakd, issued>>
    /\ UNCHANGED <<wireVars, unitVars>>

\* read_user_register where the transport answers with one of replies: on
\* Ok the caller holds the UserRegister returned
ReadUserRegisterFrom(replies) ==
    /\ Idle
    /\ \E reply \in replies :
           LET done == read_user_register(reply)
           IN  /\ call' = Call("read_user_register", "None", reply, FALSE, done)
               /\ IF done.result.ok
                  THEN /\ register' = <<done.result.value>>
                       /\ regRead' = <<done.result.value>>
                       /\ regOps' = << >>
                  ELSE UNCHANGED <<register, regRead, regOps>>
    /\ report' = << >>
    /\ UNCHANGED <<handle, polls, busy, nakd, issued>>
    /\ UNCHANGED <<wireVars, unitVars>>

ReadUserRegister == ReadUserRegisterFrom(RegReplies)

\* write_user_register takes the UserRegister by value: the caller no
\* longer holds it afterwards
WriteUserRegister ==
    /\ register # << >>
    /\ \E reply \in WriteReplies :
           call' = Call("write_user_register", "None", reply, FALSE,
                        write_user_register(reply, register[1]))
    /\ register' = << >>
    /\ regRead' = << >>
    /\ regOps' = << >>
    /\ report' = << >>
    /\ UNCHANGED <<handle, polls, busy, nakd, issued>>
    /\ UNCHANGED <<wireVars, unitVars>>

\* The caller drops the UserRegister without writing it back
DropRegister ==
    /\ register # << >>
    /\ register' = << >>
    /\ regRead' = << >>
    /\ regOps' = << >>
    /\ report' = << >>
    /\ UNCHANGED <<handle, polls, busy, nakd, issued, call>>
    /\ UNCHANGED <<wireVars, unitVars>>

(***************************************************************************)
(* Mutators of the UserRegister the caller holds.                          *)
(***************************************************************************)
SetResolution ==
    /\ register # << >>
    /\ Len(regOps) < MaxRegOps
    /\ \E res \in Resolutions :
           /\ register' = <<set_resolution(register[1], res)>>
           /\ regOps' = Append(regOps, <<"set_resolution", res>>)
    /\ report' = << >>
    /\ UNCHANGED <<handle, polls, busy, nakd, issued, regRead, call>>
    /\ UNCHANGED <<wireVars, unitVars>>

SetHeaterEnabled ==
    /\ register # << >>
    /\ Len(regOps) < MaxRegOps
    /\ \E enabled \in BOOLEAN :
           /\ register' = <<set_heater_enabled(register[1], enabled)>>
           /\ regOps' = Append(regOps, <<"set_heater_enabled", enabled>>)
    /\ report' = << >>
    /\ UNCHANGED <<handle, polls, busy, nakd, issued, regRead, call>>
    /\ UNCHANGED <<wireVars, unitVars>>

SetOtpReloadEnabled ==
    /\ register # << >>
    /\ Len(regOps) < MaxRegOps
    /\ \E otp_reload \in BOOLEAN :
           /\ register' = <<set_otp_reload_enabled(register[1], otp_reload)>>
           /\ regOps' = Append(regOps, <<"set_otp_reload_enabled", otp_reload>>)
    /\ report' = << >>
    /\ UNCHANGED <<handle, polls, busy, nakd, issued, regRead, call>>
    /\ UNCHANGED <<wireVars, unitVars>>

Next ==
    \/ SoftReset
    \/ ReadHumidityBlocking
    \/ ReadTemperatureBlocking
    \/ ReadHumidity
    \/ ReadTemperature
    \/ ReadResult
    \/ DropReader
    \/ ReadUserRegister
    \/ WriteUserRegister
    \/ DropRegister
    \/ SetResolution
    \/ SetHeaterEnabled
    \/ SetOtpReloadEnabled

Spec == Init /\ [][Next]_vars

(***************************************************************************)
(* The caller of the crate's example: it starts a measurement and waits    *)
(* for the result with nb::block!, which calls read_result again for as    *)
(* long as it returns WouldBlock, then drops the ResultReader.  The sensor *)
(* acknowledges its address by the MaxPolls-th poll at the latest.         *)
(***************************************************************************)
\* One turn of the nb::block! loop
BlockPoll ==
    /\ handle # "None"
    /\ polls < MaxPolls
    /\ polls = busy
    /\ \E reply \in MeasureReplies, is_nak \in SUBSET I2cErrors :
           /\ reply.ok => is_nak = {}
           /\ (~reply.ok /\ reply.error \in is_nak) => polls + 1 < MaxPolls
           /\ LET done == read_result(handle, reply, is_nak)
                  nak == ~reply.ok /\ reply.error \in is_nak
              IN  /\ call' = Call("read_result", handle, reply, nak, done)
                  /\ polls' = polls + 1
                  /\ busy' = IF done.result = Err(nb_WouldBlock)
                             THEN busy + 1 ELSE busy
                  /\ nakd' = IF nak THEN nakd + 1 ELSE nakd
                  /\ issued' = issued \o done.bus
    /\ UNCHANGED <<handle, register, regRead, regOps>>
    /\ UNCHANGED <<wireVars, report, unitVars>>

\* nb::block! has returned the result: the caller is done with the
\* ResultReader
BlockDone ==
    /\ polls > busy
    /\ DropReader

NextBlock ==
    \/ ReadHumidity
    \/ ReadTemperature
    \/ BlockPoll
    \/ BlockDone

SpecBlock == Init /\ [][NextBlock]_vars /\ WF_vars(BlockPoll)

(***************************************************************************)
(* The wire.  The sensor measures a 16-bit word, sends its two bytes high  *)
(* byte first and a third byte that is their CRC; a bit may flip on the    *)
(* way.  Every word is tried, and each reply is handed to the four         *)
(* measurement reads.                                                      *)
(***************************************************************************)
\* bytes with bit k (0 .. 23, bit k % 8 of byte k \div 8) inverted
FlipBit(bytes, k) ==
    [bytes EXCEPT ![(k \div 8) + 1] = BitXor(@, 2 ^ (k % 8), 8)]

\* What the four measurement reads return when the transport hands them
\* the 3-byte reply bytes
Deliver(bytes) ==
    [blocking |->
         [M \in Kinds |->
              IF M = "Humidity" THEN read_humidity_blocking(TOk(bytes)).result
              ELSE read_temperature_blocking(TOk(bytes)).result],
     poll |-> [M \in Kinds |-> read_result(M, TOk(bytes), {}).result]]

InitWireData ==
    /\ msg \in {<<hi, lo>> : hi \in Byte, lo \in Byte}
    /\ crc = new
    /\ fed = 0
    /\ outcome = << >>

InitReply == InitDriver /\ InitWireData /\ InitReport /\ InitUnits

\* crc.add(byte) on the next data byte, as in crc_test
CrcAdd ==
    /\ Len(msg) = 2
    /\ fed < 2
    /\ crc' = add(crc, msg[fed + 1])
    /\ fed' = fed + 1
    /\ UNCHANGED <<msg, outcome>>
    /\ UNCHANGED <<driverVars, report, unitVars>>

\* The checksum of the two data bytes becomes the third byte of the reply
AppendChecksum ==
    /\ Len(msg) = 2
    /\ fed = 2
    /\ msg' = Append(msg, value(crc))
    /\ UNCHANGED <<crc, fed, outcome>>
    /\ UNCHANGED <<driverVars, report, unitVars>>

\* The reply arrives as sent
DeliverIntact ==
    /\ Len(msg) = 3
    /\ outcome = << >>
    /\ outcome' = <<Deliver(msg)>>
    /\ UNCHANGED <<msg, crc, fed>>
    /\ UNCHANGED <<driverVars, report, unitVars>>

\* The reply arrives with one of its 24 bits inverted
DeliverCorrupted ==
    /\ Len(msg) = 3
    /\ outcome = << >>
    /\ \E k \in 0 .. 23 :
           /\ msg' = FlipBit(msg, k)
           /\ outcome' = <<Deliver(FlipBit(msg, k)), k>>
    /\ UNCHANGED <<crc, fed>>
    /\ UNCHANGED <<driverVars, report, unitVars>>

NextReply ==
    \/ CrcAdd
    \/ AppendChecksum
    \/ DeliverIntact
    \/ DeliverCorrupted

SpecReply == InitReply /\ [][NextReply]_vars

(***************************************************************************)
(* Every reply.  The two data bytes are followed by each of the 256 third  *)
(* bytes in turn; each of these replies is handed to a poll, and to the    *)
(* other measurement reads too unless the poll fails with the checksum     *)
(* error.                                                                  *)
(***************************************************************************)
\* The poll of a humidity measurement fails with the checksum error
PollRejects(bytes) ==
    read_result("Humidity", TOk(bytes), {}).result = Err(nb_Other(Error_Crc))

\* The replies that begin with msg are delivered; kept are the third bytes
\* with which the poll did not fail with the checksum error, each with
\* what the four reads returned
DeliverEvery ==
    /\ Len(msg) = 2
    /\ outcome = << >>
    /\ outcome' =
           <<{<<c, Deliver(Append(msg, c))>> :
                  c \in {b \in Byte : ~PollRejects(Append(msg, b))}}>>
    /\ UNCHANGED <<msg, crc, fed>>
    /\ UNCHANGED <<driverVars, report, unitVars>>

NextEveryReply == DeliverEvery

SpecEveryReply == InitReply /\ [][NextEveryReply]_vars

(***************************************************************************)
(* The Crc on its own.  A caller adds the bytes of a message to a new Crc, *)
(* byte by byte with add or several at a time with add_all, so that        *)
(* add_all starts from every remainder.                                    *)
(***************************************************************************)
\* Bytes after the first: none set, the polynomial, all set
CrcBytes == {0, 49, 255}

RECURSIVE CrcTails(_)
CrcTails(n) ==
    IF n = 0 THEN {<< >>}
    ELSE CrcTails(n - 1) \cup
         {Append(t, b) : t \in {u \in CrcTails(n - 1) : Len(u) = n - 1},
                         b \in CrcBytes}

\* The empty message, and any byte followed by up to MaxCrcLen - 1 more
CrcMessages ==
    {<< >>} \cup {<<b>> \o t : b \in Byte, t \in CrcTails(MaxCrcLen - 1)}

InitCrc ==
    /\ InitDriver /\ InitReport /\ InitUnits
    /\ msg \in CrcMessages
    /\ crc = new
    /\ fed = 0
    /\ outcome = << >>

\* crc.add(byte) on the next byte of the message
CrcAddNext ==
    /\ fed < Len(msg)
    /\ crc' = add(crc, msg[fed + 1])
    /\ fed' = fed + 1
    /\ UNCHANGED <<msg, outcome>>
    /\ UNCHANGED <<driverVars, report, unitVars>>

\* crc.add_all(bytes) on the next n bytes of the message, n >= 0
CrcAddAll ==
    /\ \E n \in 0 .. Len(msg) - fed :
           /\ crc' = add_all(crc, SubSeq(msg, fed + 1, fed + n))
           /\ fed' = fed + n
    /\ UNCHANGED <<msg, outcome>>
    /\ UNCHANGED <<driverVars, report, unitVars>>

NextCrc ==
    \/ CrcAddNext
    \/ CrcAddAll

SpecCrc == InitCrc /\ [][NextCrc]_vars

(***************************************************************************)
(* The register.  The sensor may hold any byte in its user register; the   *)
(* caller reads it, inspects it, calls the mutators any number of times    *)
(* and writes it back or drops it.                                         *)
(***************************************************************************)
AnyRegReplies == {TOk(<<b>>) : b \in Byte} \cup {TErr(e) : e \in I2cErrors}

ReadAnyUserRegister == ReadUserRegisterFrom(AnyRegReplies)

\* The caller formats the UserRegister it holds: Debug::fmt takes &self and
\* calls the four accessors
Inspect ==
    /\ register # << >>
    /\ report' = <<[resolution |-> resolution(register[1]),
                    supply_voltage |-> supply_voltage(register[1]),
                    heater_enabled |-> heater_enabled(register[1]),
                    otp_reload_enabled |-> otp_reload_enabled(register[1])]>>
    /\ UNCHANGED driverVars
    /\ UNCHANGED <<wireVars, unitVars>>

\* The mutators, called any number of times: the log keeps the latest call
SetResolutionAny ==
    /\ register # << >>
    /\ \E res \in Resolutions :
           /\ register' = <<set_resolution(register[1], res)>>
           /\ regOps' = <<<<"set_resolution", res>>>>
    /\ report' = << >>
    /\ UNCHANGED <<handle, polls, busy, nakd, issued, regRead, call>>
    /\ UNCHANGED <<wireVars, unitVars>>

SetHeaterEnabledAny ==
    /\ register # << >>
    /\ \E enabled \in BOOLEAN :
           /\ register' = <<set_heater_enabled(register[1], enabled)>>
           /\ regOps' = <<<<"set_heater_enabled", enabled>>>>
    /\ report' = << >>
    /\ UNCHANGED <<handle, polls, busy, nakd, issued, regRead, call>>
    /\ UNCHANGED <<wireVars, unitVars>>

SetOtpReloadEnabledAny ==
    /\ register # << >>
    /\ \E otp_reload \in BOOLEAN :
           /\ register' = <<set_otp_reload_enabled(register[1], otp_reload)>>
           /\ regOps' = <<<<"set_otp_reload_enabled", otp_reload>>>>
    /\ report' = << >>
    /\ UNCHANGED <<handle, polls, busy, nakd, issued, regRead, call>>
    /\ UNCHANGED <<wireVars, unitVars>>

NextRegister ==
    \/ ReadAnyUserRegister
    \/ Inspect
    \/ SetResolutionAny
    \/ SetHeaterEnabledAny
    \/ SetOtpReloadEnabledAny
    \/ WriteUserRegister
    \/ DropRegister

SpecRegister == Init /\ [][NextRegister]_vars

(***************************************************************************)
(* Units.  Reading::from_raw clears the two status bits, so a Temperature  *)
(* or Humidity holds a multiple of 4; every one of them is converted.      *)
(***************************************************************************)
RawValues == {4 * i : i \in 0 .. 16383}

InitUnitsData ==
    /\ measurement \in {<<Measurement_from_raw(raw, M)>> :
                            raw \in RawValues, M \in Kinds}
    /\ converted = << >>

AsDegreesCelsius ==
    /\ measurement[1].kind = "Temperature"
    /\ converted = << >>
    /\ converted' = <<as_degrees_celsius(measurement[1])>>
    /\ UNCHANGED measurement
    /\ UNCHANGED <<driverVars, wireVars, report>>

AsPercentRelative ==
    /\ measurement[1].kind = "Humidity"
    /\ converted = << >>
    /\ converted' = <<as_percent_relative(measurement[1])>>
    /\ UNCHANGED measurement
    /\ UNCHANGED <<driverVars, wireVars, report>>

NextUnits ==
    \/ AsDegreesCelsius
    \/ AsPercentRelative

InitConvert == InitDriver /\ InitWire /\ InitReport /\ InitUnitsData

SpecUnits == InitConvert /\ [][NextUnits]_vars

(***************************************************************************)
(* Properties.                                                             *)
(***************************************************************************)
\* The reading the decode rule assigns to the data word of a reply, by
\* arithmetic on the word: 0 is off-scale low, 65535 off-scale high, any
\* other word a measurement of the word less its remainder modulo 4
Decoded(bytes, M) ==
    LET word == bytes[1] * 256 + bytes[2]
    IN  IF word = 0 THEN [variant |-> "ErrorLow", kind |-> M]
        ELSE IF word = 65535 THEN [variant |-> "ErrorHigh", kind |-> M]
        ELSE [variant |-> "Ok", kind |-> M,
              measurement |-> [kind |-> M, raw |-> word - (word % 4)]]

\* The CRC remainder of a reply is 0
ChecksumValid(bytes) == value(add_all(new, bytes)) = 0

\* The last driver call was a poll of the ResultReader the caller holds
Polled == handle # "None" /\ polls >= 1 /\ call.op = "read_result"

\* C1: a poll the transport answers with an error that is_nak classifies
\* as a negative-acknowledge returns WouldBlock, so the polls that returned
\* WouldBlock are exactly the ones so answered; and when every earlier poll
\* was so answered and this one is answered with a checksum-valid reply,
\* every earlier poll returned WouldBlock and this one returns the decoded
\* reading of the reply.
C1_NakThenReading ==
    /\ busy = nakd
    /\ Polled =>
           /\ call.nak => call.result = Err(nb_WouldBlock)
           /\ (/\ nakd = polls - 1
               /\ call.reply.ok
               /\ ChecksumValid(call.reply.bytes))
              => /\ busy = polls - 1
                 /\ call.result = Ok(Decoded(call.reply.bytes, handle))

\* Three busy polls, then a measurement
C1_Witness ==
    /\ Polled
    /\ polls = 4
    /\ nakd = 3
    /\ busy = 3
    /\ call.reply = TOk(<<78, 133, 107>>)
    /\ call.result.ok

\* C2: a poll the transport answers with an error that is_nak does not
\* classify as a negative-acknowledge returns Other(Error::I2c(e)) with
\* that very error e, however many busy polls came before.
C2_OtherErrorIsFatal ==
    (Polled /\ ~call.reply.ok /\ ~call.nak)
        => call.result = Err(nb_Other(Error_I2c(call.reply.error)))

\* A fatal transport error after two busy polls
C2_Witness ==
    /\ Polled
    /\ busy = 2
    /\ polls = 3
    /\ ~call.reply.ok
    /\ ~call.nak
    /\ call.result = Err(nb_Other(Error_I2c("ArbitrationLoss")))

\* The outcome of a blocking read and of a poll are the same: the same
\* reading, or the checksum error
SameOutcome(blocking, poll) ==
    \/ blocking.ok /\ poll.ok /\ blocking.value = poll.value
    \/ /\ ~blocking.ok /\ ~poll.ok
       /\ blocking.error = Error_Crc
       /\ poll.error = nb_Other(Error_Crc)

\* C3: for each kind, the blocking read and the poll given the same three
\* bytes return the same outcome.
C3_BlockingAgreesWithPoll ==
    outcome # << >> =>
        \A M \in Kinds :
            SameOutcome(outcome[1].blocking[M], outcome[1].poll[M])

\* Both paths decoded the reply of the temperature test
C3_Witness ==
    /\ Len(outcome) = 1
    /\ msg = <<78, 133, 107>>
    /\ outcome[1].blocking["Temperature"].ok
    /\ outcome[1].poll["Temperature"].ok
    /\ outcome[1].poll["Humidity"].value.variant = "Ok"

\* The last driver call was a measurement read that received three bytes
ReceivedReply ==
    /\ call.op \in {"read_humidity_blocking", "read_temperature_blocking",
                    "read_result"}
    /\ call.reply.ok

\* C4: when the three bytes received do not leave the CRC remainder 0, a
\* blocking read returns Error::Crc and a poll Other(Error::Crc), whatever
\* the data word, and the call issued only its one transaction.
C4_ChecksumFailureIsFatal ==
    (ReceivedReply /\ ~ChecksumValid(call.reply.bytes))
        => /\ call.result =
                  IF call.op = "read_result" THEN Err(nb_Other(Error_Crc))
                  ELSE Err(Error_Crc)
           /\ Len(call.bus) = 1

\* A poll received the off-scale-high word with a wrong checksum
C4_Witness ==
    /\ call.op = "read_result"
    /\ call.reply = TOk(<<255, 255, 0>>)
    /\ call.result = Err(nb_Other(Error_Crc))

\* C5: two data bytes followed by their checksum leave the remainder 0,
\* and every measurement read accepts that reply.
C5_SealedReplyValidates ==
    (Len(msg) = 3 /\ Len(outcome) <= 1)
        => /\ ChecksumValid(msg)
           /\ outcome # << >> =>
                  \A M \in Kinds :
                      /\ outcome[1].blocking[M].ok
                      /\ outcome[1].poll[M].ok

\* The reply of the humidity test was delivered and accepted
C5_Witness ==
    /\ Len(outcome) = 1
    /\ msg = <<104, 58, 124>>
    /\ outcome[1].blocking["Humidity"].ok

\* C6: a reply with any one of its 24 bits inverted leaves a remainder
\* other than 0, and every measurement read fails with the checksum error.
C6_SingleBitErrorDetected ==
    Len(outcome) = 2
        => /\ ~ChecksumValid(msg)
           /\ \A M \in Kinds :
                  /\ outcome[1].blocking[M] = Err(Error_Crc)
                  /\ outcome[1].poll[M] = Err(nb_Other(Error_Crc))

\* The top bit of the checksum byte was inverted
C6_Witness ==
    /\ Len(outcome) = 2
    /\ outcome[2] = 23
    /\ msg = <<78, 133, 235>>
    /\ outcome[1].poll["Temperature"] = Err(nb_Other(Error_Crc))

\* C7: from remainder 0, adding 0xDC leaves 0x79, adding 0x68 then 0x3A
\* leaves 0x7C, and adding 0x4E then 0x85 leaves 0x6B.
C7_TestVectors ==
    Len(msg) = 2
        => /\ (fed = 1 /\ msg[1] = 220) => value(crc) = 121
           /\ (fed = 2 /\ msg = <<104, 58>>) => value(crc) = 124
           /\ (fed = 2 /\ msg = <<78, 133>>) => value(crc) = 107

\* Both bytes 0x4E, 0x85 were added
C7_Witness == Len(msg) = 2 /\ fed = 2 /\ msg = <<78, 133>>

\* C8: a checksum-valid reply decodes by its 16-bit word, first byte high:
\* 0x0000 is ErrorLow, 0xFFFF is ErrorHigh, any other word a reading whose
\* raw value is the word with its two low bits cleared.
C8_DecodeRule ==
    Len(outcome) = 1 =>
        \A M \in Kinds :
            /\ outcome[1].blocking[M] = Ok(Decoded(msg, M))
            /\ outcome[1].poll[M] = Ok(Decoded(msg, M))
            /\ outcome[1].poll[M].value.variant = "Ok"
                   => as_raw(outcome[1].poll[M].value.measurement) % 4 = 0

\* A word with both status bits set was decoded
C8_Witness ==
    /\ Len(outcome) = 1
    /\ msg[1] = 104
    /\ msg[2] = 59
    /\ outcome[1].blocking["Humidity"].value.variant = "Ok"
    /\ as_raw(outcome[1].blocking["Humidity"].value.measurement) = 26680


\* The caller holds the register read as 0b0011_1010, not yet modified
ReadDefault == register # << >> /\ regRead = <<58>> /\ regOps = << >>

\* The three mutator calls of the round trip, with the argument given to
\* set_otp_reload_enabled
RoundTripOps(otp_reload) ==
    <<<<"set_resolution", "Humidity11Temperature11">>,
      <<"set_heater_enabled", TRUE>>,
      <<"set_otp_reload_enabled", otp_reload>>>>

\* Those calls were made on the register read as 0b0011_1010
RoundTripDone(otp_reload) ==
    register # << >> /\ regRead = <<58>> /\ regOps = RoundTripOps(otp_reload)

\* C9 as stated: the register read as 0b0011_1010 reports 12/14-bit
\* resolution, supply voltage high, heater off and auto-reload on, and
\* after setting 11/11-bit resolution, enabling the heater and disabling
\* auto-reload the byte is 0b1011_1101.
C9_AsStated ==
    /\ ReadDefault =>
           /\ resolution(register[1]) = "Humidity12Temperature14"
           /\ supply_voltage(register[1]) = "High"
           /\ ~heater_enabled(register[1])
           /\ otp_reload_enabled(register[1])
    /\ RoundTripDone(FALSE) => register = <<189>>

\* C9 (amended): the register read as 0b0011_1010 reports 12/14-bit
\* resolution, supply voltage high, heater off and auto-reload off; after
\* setting 11/11-bit resolution, enabling the heater and enabling
\* auto-reload the byte is 0b1011_1101, and with auto-reload disabled
\* instead it is 0b1011_1111.
C9_RoundTrip ==
    /\ ReadDefault =>
           /\ resolution(register[1]) = "Humidity12Temperature14"
           /\ supply_voltage(register[1]) = "High"
           /\ ~heater_enabled(register[1])
           /\ ~otp_reload_enabled(register[1])
    /\ RoundTripDone(TRUE) => register = <<189>>
    /\ RoundTripDone(FALSE) => register = <<191>>

\* The three mutators ran, the last one enabling auto-reload
C9_Witness == RoundTripDone(TRUE) /\ register = <<189>>

\* What the accessors of C10 report in a state
C10_Accessors ==
    /\ call.op = "read_user_register" =>
           call.bus = <<I2cWriteRead(64, <<231>>, 1)>>
    /\ ReadDefault =>
           /\ call.op = "read_user_register"
           /\ call.reply = TOk(<<58>>)
           /\ resolution(register[1]) = "Humidity12Temperature14"
           /\ supply_voltage(register[1]) = "High"
           /\ otp_reload_enabled(register[1]) = FALSE
           /\ heater_enabled(register[1]) = FALSE
    /\ RoundTripDone(TRUE) =>
           /\ resolution(register[1]) = "Humidity11Temperature11"
           /\ otp_reload_enabled(register[1]) = TRUE
           /\ heater_enabled(register[1]) = TRUE

\* What write_user_register sends in a step that writes the register of C10
C10_WriteBack ==
    (RoundTripDone(TRUE) /\ call'.op = "write_user_register")
        => call'.bus = <<I2cWrite(64, <<230, 189>>)>>

\* C10: read_user_register issues one write-then-read of [0xE7] for one
\* byte at address 0x40; the register read as 0b0011_1010 reports
\* Humidity12Temperature14, High, otp_reload_enabled false and
\* heater_enabled false; after set_resolution(Humidity11Temperature11),
\* set_heater_enabled(true) and set_otp_reload_enabled(true) the accessors
\* report those values, and write_user_register then issues exactly one
\* write of [0xE6, 0b1011_1101] to address 0x40.
C10_RegisterScenario == [](C10_Accessors) /\ [][C10_WriteBack]_vars

\* The register of the scenario was written back
C10_Witness ==
    /\ call.op = "write_user_register"
    /\ call.bus = <<I2cWrite(64, <<230, 189>>)>>
    /\ call.result = Ok(unit)
    /\ register = << >>


(***************************************************************************)
(* The register codec, for every byte the sensor may hold.                 *)
(***************************************************************************)
\* Bit n of byte b, by arithmetic
Bit(b, n) == (b \div (2 ^ n)) % 2

\* The bits in which bytes a and b differ
Differing(a, b) == {n \in 0 .. 7 : Bit(a, n) # Bit(b, n)}

\* The bits of the field a mutator sets
OwnBits(mutator) ==
    CASE mutator = "set_resolution" -> {7, 0}
      [] mutator = "set_heater_enabled" -> {2}
      [] mutator = "set_otp_reload_enabled" -> {1}

\* The byte held agrees with the byte read in the reserved bits 3, 4, 5 and
\* in the supply-voltage bit 6
C11_Frame ==
    register # << >> => Differing(register[1], regRead[1]) \cap 3 .. 6 = {}

\* A step that changes the byte held is a mutator call, and it changes
\* bits of that mutator's field only
C11_OwnBits ==
    (register # << >> /\ register' # << >> /\ register' # register) =>
        /\ regOps' # << >>
        /\ Differing(register[1], register'[1])
               \subseteq OwnBits(regOps'[Len(regOps')][1])

\* C11: whatever byte was read and whatever mutator calls followed, bits 3
\* to 6 of the byte held are those of the byte read, and each mutator call
\* changes only bits of its own field: set_resolution bits 7 and 0,
\* set_heater_enabled bit 2, set_otp_reload_enabled bit 1.
C11_MutatorFrame == [](C11_Frame) /\ [][C11_OwnBits]_vars

\* 0b0111_1101 was read, and mutator calls have inverted bits 7, 2, 1 and 0
C11_Witness ==
    /\ regRead = <<125>>
    /\ register = <<250>>
    /\ regOps # << >>

\* What the register table assigns to byte b, by arithmetic on its bits
Extracted(b) ==
    [resolution |->
         CASE <<Bit(b, 7), Bit(b, 0)>> = <<0, 0>> -> "Humidity12Temperature14"
           [] <<Bit(b, 7), Bit(b, 0)>> = <<0, 1>> -> "Humidity8Temperature12"
           [] <<Bit(b, 7), Bit(b, 0)>> = <<1, 0>> -> "Humidity10Temperature13"
           [] <<Bit(b, 7), Bit(b, 0)>> = <<1, 1>> -> "Humidity11Temperature11",
     supply_voltage |-> IF Bit(b, 6) = 0 THEN "High" ELSE "Low",
     heater_enabled |-> Bit(b, 2) = 1,
     otp_reload_enabled |-> Bit(b, 1) = 0]

\* What the accessors reported is what the table assigns to the byte held
C12_Report ==
    report # << >> => register # << >> /\ report[1] = Extracted(register[1])

\* A step in which the accessors are called leaves the byte held as it was
C12_Pure == report' # << >> => register' = register

\* C12: for every byte, read or mutated, the four accessors return the bit
\* extractions of the register table (resolution from bits 7 and 0, supply
\* voltage High iff bit 6 is 0, heater on iff bit 2 is 1, OTP reload enabled
\* iff bit 1 is 0), and calling them does not change the byte.
C12_AccessorsExtractBits == [](C12_Report) /\ [][C12_Pure]_vars

\* 0b1000_0110 is held and was inspected: 10/13 bits, supply High, heater
\* on, OTP reload disabled
C12_Witness ==
    /\ register = <<134>>
    /\ report # << >>
    /\ report[1].resolution = "Humidity10Temperature13"
    /\ report[1].supply_voltage = "High"
    /\ report[1].heater_enabled
    /\ ~report[1].otp_reload_enabled

\* The step in which the caller obtains a UserRegister is a successful
\* read_user_register, and the UserRegister holds the byte the transport
\* filled in
C20_Read ==
    (register = << >> /\ register' # << >>) =>
        /\ call'.op = "read_user_register"
        /\ call'.reply.ok
        /\ call'.bus = <<I2cWriteRead(ADDRESS, <<Command_ReadUser>>, 1)>>
        /\ register' = call'.reply.bytes
        /\ regRead' = call'.reply.bytes
        /\ regOps' = << >>

\* The step in which the caller writes the UserRegister sends the byte
\* held: the byte read if no mutator was called, a byte that agrees with it
\* on bits 3 to 6 otherwise
C20_Write ==
    (register # << >> /\ call'.op = "write_user_register") =>
        /\ call.op = "read_user_register"
        /\ call'.bus = <<I2cWrite(ADDRESS, <<Command_WriteUser, register[1]>>)>>
        /\ regOps = << >> => call'.bus[1].bytes[2] = call.reply.bytes[1]
        /\ Differing(call'.bus[1].bytes[2], call.reply.bytes[1]) \cap 3 .. 6 = {}

\* C20: read_user_register returns a UserRegister holding exactly the byte
\* the sensor sent and write_user_register sends exactly the byte held, so
\* a read followed by a write writes the byte back unchanged when no
\* mutator was called, and unchanged in bits 3 to 6 after any mutator
\* calls.
C20_ByteThrough == [][C20_Read /\ C20_Write]_vars

\* 0b1101_0101 was read and written back
C20_Witness ==
    /\ call.op = "write_user_register"
    /\ call.bus = <<I2cWrite(ADDRESS, <<Command_WriteUser, 213>>)>>
    /\ register = << >>

(***************************************************************************)
(* The transactions on the bus, written out as the mock would expect them. *)
(***************************************************************************)
BusWrite(bytes) ==
    [type |-> "write", address |-> 64, bytes |-> bytes, len |-> 0]
BusRead(n) ==
    [type |-> "read", address |-> 64, bytes |-> << >>, len |-> n]
BusWriteRead(bytes, n) ==
    [type |-> "write_read", address |-> 64, bytes |-> bytes, len |-> n]

\* The opcode that starts a non-blocking measurement of kind M
StartOpcode(M) == IF M = "Temperature" THEN 243 ELSE 245

\* C15: from the start of a non-blocking measurement on, the transactions
\* issued are one write of the start opcode, by the start call, followed by
\* one 3-byte read for each poll made; no poll writes, so the start command
\* is not sent again after a busy result.
C15_TransactionAccounting ==
    handle # "None" =>
        /\ Len(issued) = polls + 1
        /\ issued[1] = BusWrite(<<StartOpcode(handle)>>)
        /\ \A i \in 2 .. Len(issued) : issued[i] = BusRead(3)
        /\ Cardinality({i \in 1 .. Len(issued) : issued[i].type = "write"}) = 1

\* Three polls were made, two of them answered busy
C15_Witness ==
    /\ handle = "Humidity"
    /\ polls = 3
    /\ busy = 2
    /\ Len(issued) = 4

\* What the command table prescribes for the last call
C16_Bus ==
    CASE call.op = "new" -> call.bus = << >>
      [] call.op = "soft_reset" -> call.bus = <<BusWrite(<<254>>)>>
      [] call.op = "read_temperature_blocking" ->
             call.bus = <<BusWriteRead(<<227>>, 3)>>
      [] call.op = "read_humidity_blocking" ->
             call.bus = <<BusWriteRead(<<229>>, 3)>>
      [] call.op = "read_temperature" -> call.bus = <<BusWrite(<<243>>)>>
      [] call.op = "read_humidity" -> call.bus = <<BusWrite(<<245>>)>>
      [] call.op = "read_result" -> call.bus = <<BusRead(3)>>
      [] call.op = "read_user_register" ->
             call.bus = <<BusWriteRead(<<231>>, 1)>>
      [] call.op = "write_user_register" ->
             \E b \in Byte : call.bus = <<BusWrite(<<230, b>>)>>

\* A reading returned has the kind of the command that was sent for it
C16_Kind ==
    /\ (handle # "None" /\ call.op = "read_result" /\ call.result.ok) =>
           call.result.value.kind =
               (IF issued[1].bytes = <<243>> THEN "Temperature" ELSE "Humidity")
    /\ (call.op \in {"read_temperature_blocking", "read_humidity_blocking"}
            /\ call.result.ok) =>
           call.result.value.kind =
               (IF call.bus[1].bytes = <<227>> THEN "Temperature" ELSE "Humidity")

\* The byte written to the user register is the byte of the UserRegister
\* passed
C16_RegisterByte ==
    (register # << >> /\ call'.op = "write_user_register") =>
        call'.bus = <<BusWrite(<<230, register[1]>>)>>

\* C16: every transaction goes to address 0x40 with the opcode of the
\* command table for the function called, and a reading has the kind,
\* Temperature or Humidity, of the command that started its measurement.
C16_CommandTable == [](C16_Bus /\ C16_Kind) /\ [][C16_RegisterByte]_vars

\* A poll returned a humidity reading for a measurement started with 0xF5
C16_Witness ==
    /\ call.op = "read_result"
    /\ call.result.ok
    /\ call.result.value.kind = "Humidity"
    /\ issued = <<BusWrite(<<245>>), BusRead(3), BusRead(3)>>

\* The functions that make one transaction and do not poll
OneShot ==
    {"soft_reset", "read_temperature_blocking", "read_humidity_blocking",
     "read_temperature", "read_humidity", "read_user_register",
     "write_user_register"}

\* C18: when the transport fails in soft_reset, read_user_register,
\* write_user_register, the start of a measurement or a blocking read, the
\* call returns that very error (inside Error::I2c for a blocking read, and
\* never Error::Crc) after its one transaction, the caller obtains no
\* UserRegister, no ResultReader and no Reading, and no is_nak closure was
\* consulted.
C18_TransportErrorVerbatim ==
    (call.op \in OneShot /\ ~call.reply.ok) =>
        /\ Len(call.bus) = 1
        /\ call.result =
               (IF call.op \in {"read_temperature_blocking",
                                "read_humidity_blocking"}
                THEN [ok |-> FALSE,
                      error |-> [variant |-> "I2c", inner |-> call.reply.error]]
                ELSE [ok |-> FALSE, error |-> call.reply.error])
        /\ ~call.nak
        /\ handle = "None"
        /\ issued = << >>
        /\ register = << >>

\* A blocking temperature read failed with an arbitration loss
C18_Witness ==
    /\ call.op = "read_temperature_blocking"
    /\ call.reply = [ok |-> FALSE, error |-> "ArbitrationLoss"]
    /\ call.result.error.inner = "ArbitrationLoss"

\* How a poll of a measurement of kind M classifies the transport's answer,
\* by the reply alone
Classified(M, reply, nak) ==
    IF reply.ok
    THEN IF ChecksumValid(reply.bytes)
         THEN [ok |-> TRUE, value |-> Decoded(reply.bytes, M)]
         ELSE [ok |-> FALSE,
               error |-> [nb |-> "Other", error |-> [variant |-> "Crc"]]]
    ELSE IF nak
         THEN [ok |-> FALSE, error |-> [nb |-> "WouldBlock"]]
         ELSE [ok |-> FALSE,
               error |-> [nb |-> "Other",
                          error |-> [variant |-> "I2c", inner |-> reply.error]]]

\* C19: a ResultReader that has returned a terminal result can be polled
\* again: the poll is not rejected, it issues one more 3-byte read and
\* classifies the reply as the first poll would, as busy, a transport
\* error, a checksum failure or a reading.
C19_RepollNotChecked ==
    /\ (handle # "None" /\ polls < MaxPolls) => ENABLED ReadResult
    /\ Polled =>
           /\ call.bus = <<BusRead(3)>>
           /\ call.result = Classified(handle, call.reply, call.nak)
           /\ Len(issued) = polls + 1

\* The first poll returned a terminal result, and the second poll of the
\* same ResultReader returned a reading
C19_Witness ==
    /\ Polled
    /\ polls = 2
    /\ busy = 0
    /\ call.result.ok
    /\ call.result.value.variant = "Ok"

\* The caller is in the polling loop: every poll so far returned WouldBlock
Blocking == handle # "None" /\ polls = busy

\* The last poll returned a terminal result
Terminal ==
    /\ Polled
    /\ call.result # [ok |-> FALSE, error |-> [nb |-> "WouldBlock"]]

\* Each poll made one transaction; a poll the transport answered with
\* anything but a negative-acknowledge returned a terminal result, the one
\* that reply classifies to, and every poll before it was answered with a
\* negative-acknowledge
C17_FirstAnswerIsTerminal ==
    Polled =>
        /\ Len(call.bus) = 1
        /\ ~call.nak =>
               /\ Terminal
               /\ call.result = Classified(handle, call.reply, FALSE)
               /\ nakd = polls - 1
               /\ busy = polls - 1
        /\ call.nak => ~Terminal /\ Blocking

\* C17: a caller that keeps polling while the result is WouldBlock reaches
\* a terminal result (a reading, a checksum failure or a transport error)
\* once the transport answers a poll with anything but a
\* negative-acknowledge; that first such poll produces it, and every poll
\* returns after one transaction.
C17_PollingTerminates ==
    [](C17_FirstAnswerIsTerminal) /\ (Blocking ~> Terminal)

\* The loop ended with a reading at the third poll, after two busy results
C17_Witness ==
    /\ Terminal
    /\ polls = 3
    /\ busy = 2
    /\ nakd = 2
    /\ call.result.ok

(***************************************************************************)
(* Physical units.  An f32 is compared with the decimal n/d, n/d >= 1, in  *)
(* integers.                                                               *)
(***************************************************************************)
\* The binade of a positive value: 2^k <= x < 2^(k + 1)
Binade(x) == x.e + 23
DecimalBinade(n, d) ==
    CHOOSE k \in 0 .. 23 : d * 2 ^ k <= n /\ n < d * 2 ^ (k + 1)

\* x >= n/d
AtLeast(x, n, d) ==
    /\ x.m # 0
    /\ ~x.neg
    /\ \/ Binade(x) > DecimalBinade(n, d)
       \/ /\ Binade(x) = DecimalBinade(n, d)
          /\ d * x.m >= n * 2 ^ (23 - Binade(x))

\* x > n/d
Above(x, n, d) ==
    /\ x.m # 0
    /\ ~x.neg
    /\ \/ Binade(x) > DecimalBinade(n, d)
       \/ /\ Binade(x) = DecimalBinade(n, d)
          /\ d * x.m > n * 2 ^ (23 - Binade(x))

\* The measurement of kind M and raw value raw has been converted
Converted(M, raw) ==
    /\ measurement = <<[kind |-> M, raw |-> raw]>>
    /\ converted # << >>

\* C13: the temperature with raw value 0x4E84 converts to a value in
\* [7.04, 7.05) degrees Celsius, and the humidity with raw value 0x6838 to
\* a value in [44.8, 44.9) percent.
C13_TestVectorUnits ==
    /\ Converted("Temperature", 20100) =>
           AtLeast(converted[1], 704, 100) /\ ~AtLeast(converted[1], 705, 100)
    /\ Converted("Humidity", 26680) =>
           AtLeast(converted[1], 448, 10) /\ ~AtLeast(converted[1], 449, 10)

\* 0x4E84 was converted to 14771536 * 2^-21 = 7.0436172485... degrees
C13_Witness ==
    /\ Converted("Temperature", 20100)
    /\ converted[1] = [neg |-> FALSE, m |-> 14771536, e |-> -21]

\* C14: as_percent_relative clamps to the range 0% to 100%: whatever
\* multiple of 4 the Humidity holds, the value returned is at least 0.0 and
\* at most 100.0.
C14_HumidityClamped ==
    (converted # << >> /\ measurement[1].kind = "Humidity") =>
        /\ ~converted[1].neg
        /\ ~Above(converted[1], 100, 1)

(***************************************************************************)
(* The Crc as a fold.                                                      *)
(***************************************************************************)
\* The remainder after add on each of bytes[1], ..., bytes[k] in that
\* order, starting from remainder v
RECURSIVE AddEach(_, _, _)
AddEach(v, bytes, k) ==
    IF k = 0 THEN v ELSE add(AddEach(v, bytes, k - 1), bytes[k])

\* The remainder is the one that add on each byte fed so far leaves,
\* however the bytes were fed
C21_Folded == crc = AddEach(new, msg, fed)

\* From the remainder reached: add_all of no byte leaves it unchanged, and
\* add_all of the bytes left equals add_all of any first part of them
\* followed by add_all of the rest
C21_Concatenation ==
    LET left == SubSeq(msg, fed + 1, Len(msg))
    IN  /\ add_all(crc, << >>) = crc
        /\ add_all(crc, left) = AddEach(crc, left, Len(left))
        /\ \A k \in 0 .. Len(left) :
               add_all(add_all(crc, SubSeq(left, 1, k)),
                       SubSeq(left, k + 1, Len(left)))
                   = add_all(crc, left)

\* A step that feeds bytes leaves the remainder that add on each of them
\* in order leaves
C21_Step ==
    fed' > fed =>
        crc' = AddEach(crc, SubSeq(msg, fed + 1, fed'), fed' - fed)

\* C21: add_all is the in-order fold of add, from every remainder and for
\* every byte sequence: it leaves the remainder that add on each byte in
\* order leaves, add_all of a concatenation is add_all of its parts one
\* after the other, and add_all of the empty sequence changes nothing.
C21_AddAllIsFold == [](C21_Folded /\ C21_Concatenation) /\ [][C21_Step]_vars

\* The three bytes of <<0xDC, 0x31, 0xFF>> were fed: the remainder is
\* 0x12, where the bytes in the opposite order leave 0x74
C21_Witness ==
    /\ msg = <<220, 49, 255>>
    /\ fed = 3
    /\ crc = 18
    /\ add_all(new, <<255, 49, 220>>) = 116

(***************************************************************************)
(* The off-scale replies among all replies.                                *)
(***************************************************************************)
\* What a read returned is a reading, and it is ErrorLow only for the reply
\* low, ErrorHigh only for the reply high, and a measurement otherwise
SentinelOnlyFor(returned, reply, low, high) ==
    /\ returned.ok
    /\ returned.value.variant =
           (IF reply = low THEN "ErrorLow"
            ELSE IF reply = high THEN "ErrorHigh"
            ELSE "Ok")

\* C22: of all the three-byte replies, those that do not fail with the
\* checksum error are the ones whose third byte is the CRC of the first
\* two; among them [0x00, 0x00, 0x00] and only it gives ErrorLow,
\* [0xFF, 0xFF, 0x2D], the CRC of 0xFF 0xFF being 0x2D, and only it gives
\* ErrorHigh, and every other one gives a measurement.
C22_SentinelsByChecksum ==
    (Len(msg) = 2 /\ outcome # << >>) =>
        /\ {e[1] : e \in outcome[1]} = {AddEach(new, msg, 2)}
        /\ \A e \in outcome[1] : ChecksumValid(Append(msg, e[1]))
        /\ \A e \in outcome[1], M \in Kinds :
               /\ SentinelOnlyFor(e[2].blocking[M], Append(msg, e[1]),
                                  <<0, 0, 0>>, <<255, 255, 45>>)
               /\ SentinelOnlyFor(e[2].poll[M], Append(msg, e[1]),
                                  <<0, 0, 0>>, <<255, 255, 45>>)
        /\ msg = <<0, 0>> => \E e \in outcome[1] : e[1] = 0
        /\ msg = <<255, 255>> => \E e \in outcome[1] : e[1] = 45

\* The 256 replies that begin 0x00 0x00 were delivered: the one that ends
\* 0x00 is the one accepted, as ErrorLow
C22_Witness ==
    /\ msg = <<0, 0>>
    /\ outcome # << >>
    /\ \E e \in outcome[1] :
           /\ e[1] = 0
           /\ e[2].poll["Humidity"].value.variant = "ErrorLow"
           /\ e[2].blocking["Temperature"].value.variant = "ErrorLow"

(***************************************************************************)
(* The mutators against the accessors and against each other.              *)
(***************************************************************************)
\* The latest mutator call on the UserRegister held, <<name, argument>>
LatestCall == regOps[Len(regOps)]

\* What the accessors reported right after a mutator call is the argument
\* of that call, for the field it sets
C23_GetAfterSet ==
    (register # << >> /\ regOps # << >> /\ report # << >>) =>
        CASE LatestCall[1] = "set_resolution" ->
                 report[1].resolution = LatestCall[2]
          [] LatestCall[1] = "set_heater_enabled" ->
                 report[1].heater_enabled = LatestCall[2]
          [] LatestCall[1] = "set_otp_reload_enabled" ->
                 report[1].otp_reload_enabled = LatestCall[2]

\* Mutators of two different fields applied to the byte read, which may be
\* any byte, give the same byte in either order
C23_Commute ==
    (register # << >> /\ regOps = << >> /\ report = << >>) =>
        LET b == register[1]
        IN  \A r \in Resolutions, h \in BOOLEAN, o \in BOOLEAN :
                /\ set_heater_enabled(set_resolution(b, r), h)
                       = set_resolution(set_heater_enabled(b, h), r)
                /\ set_otp_reload_enabled(set_resolution(b, r), o)
                       = set_resolution(set_otp_reload_enabled(b, o), r)
                /\ set_otp_reload_enabled(set_heater_enabled(b, h), o)
                       = set_heater_enabled(set_otp_reload_enabled(b, o), h)

\* The step that repeats the latest mutator call with the same argument
\* leaves the byte held as it was
C23_Idempotent ==
    (register # << >> /\ register' # << >>
         /\ regOps # << >> /\ regOps' = regOps) =>
        register' = register

\* C23: for every byte and argument, right after a mutator call the
\* accessor of its field returns the argument, the same call made twice
\* gives the byte that one call gives, and calls to mutators of two
\* different fields give the same byte in either order.
C23_MutatorAlgebra ==
    [](C23_GetAfterSet /\ C23_Commute) /\ [][C23_Idempotent]_vars

\* 0xFF was read, OTP reload was enabled on it, and the accessors report it
\* enabled
C23_Witness ==
    /\ regRead = <<255>>
    /\ register = <<253>>
    /\ regOps = <<<<"set_otp_reload_enabled", TRUE>>>>
    /\ report # << >>
    /\ report[1].otp_reload_enabled

\* What a call returns, written from its name, the kind of measurement, the
\* transport's reply and the answer of is_nak, and from nothing else
Returned(op, kind, reply, nak) ==
    IF op = "new" THEN [ok |-> TRUE, value |-> << >>]
    ELSE IF op = "read_result" THEN Classified(kind, reply, nak)
    ELSE IF op \in {"read_temperature_blocking", "read_humidity_blocking"}
    THEN IF ~reply.ok
         THEN [ok |-> FALSE,
               error |-> [variant |-> "I2c", inner |-> reply.error]]
         ELSE IF ChecksumValid(reply.bytes)
         THEN [ok |-> TRUE, value |-> Decoded(reply.bytes, kind)]
         ELSE [ok |-> FALSE, error |-> [variant |-> "Crc"]]
    ELSE IF ~reply.ok THEN [ok |-> FALSE, error |-> reply.error]
    ELSE IF op \in {"read_temperature", "read_humidity"}
    THEN [ok |-> TRUE, value |-> [reader |-> kind]]
    ELSE IF op = "read_user_register"
    THEN [ok |-> TRUE, value |-> reply.bytes[1]]
    ELSE [ok |-> TRUE, value |-> << >>]

\* The kind of measurement a call is about: the one its name says, or the
\* one of the ResultReader polled (while the caller still holds it)
KindOf ==
    IF call.op \in {"read_temperature_blocking", "read_temperature"}
    THEN {"Temperature"}
    ELSE IF call.op \in {"read_humidity_blocking", "read_humidity"}
    THEN {"Humidity"}
    ELSE IF call.op = "read_result"
    THEN (IF handle = "None" THEN Kinds ELSE {handle})
    ELSE {"None"}

\* Whatever came before it, the last call returned what its reply and kind
\* give, and every call but new issued one transaction of its own
C24_ByReplyAlone ==
    /\ call.kind \in KindOf
    /\ call.result = Returned(call.op, call.kind, call.reply, call.nak)
    /\ Len(call.bus) = (IF call.op = "new" THEN 0 ELSE 1)

\* A read_user_register asks the device, and the UserRegister it hands over
\* holds the byte the device sent in that very transaction
C24_FreshRead ==
    call.op = "read_user_register" =>
        /\ call.bus = <<BusWriteRead(<<231>>, 1)>>
        /\ (register # << >> /\ regOps = << >>) =>
               /\ call.reply.ok
               /\ register = call.reply.bytes

\* A call with the name, kind, reply and is_nak answer of the call before
\* it issues the same transaction and returns the same result
C24_SameAgain ==
    (/\ call'.op = call.op
     /\ call'.kind = call.kind
     /\ call'.reply = call.reply
     /\ call'.nak = call.nak
     /\ call.op # "write_user_register") =>
        /\ call'.result = call.result
        /\ call'.bus = call.bus

\* A read_user_register that follows a write_user_register reads the
\* device again: its result is the reply's byte or error, whatever byte was
\* written
C24_ReadAfterWrite ==
    (call.op = "write_user_register" /\ call'.op = "read_user_register") =>
        /\ call'.bus = <<BusWriteRead(<<231>>, 1)>>
        /\ call'.result =
               (IF call'.reply.ok
                THEN [ok |-> TRUE, value |-> call'.reply.bytes[1]]
                ELSE [ok |-> FALSE, error |-> call'.reply.error])

\* C24: the driver keeps nothing between calls: in every state the last
\* call returned what its name, the kind of its handle and the transport's
\* reply in that call determine, after one transaction of its own; a call
\* repeated with the same reply returns the same result; and
\* read_user_register always asks the device, also right after a write.
C24_Stateless ==
    /\ [](C24_ByReplyAlone /\ C24_FreshRead)
    /\ [][C24_SameAgain /\ C24_ReadAfterWrite]_vars

\* read_user_register issued its write-read of 0xE7, was answered with 0xC5
\* and handed over a UserRegister holding 0xC5
C24_Witness ==
    /\ call.op = "read_user_register"
    /\ call.reply = [ok |-> TRUE, bytes |-> <<197>>]
    /\ call.bus = <<BusWriteRead(<<231>>, 1)>>
    /\ call.result = [ok |-> TRUE, value |-> 197]
    /\ register = <<197>>

====
